---- MODULE Spec2Model ----
(***************************************************************************)
(* A model of the quiz session engine of quiz-websocket-server:            *)
(* src/src/handlers/QuizGameHandler.ts driven by the event registrations   *)
(* of src/src/server.ts, over the tables of src/unnamed/part_000           *)
(* (types/database.ts).                                                    *)
(*                                                                         *)
(* Every handler is an async function.  Between two awaits its code runs   *)
(* without interruption, and an awaited store call takes effect at some    *)
(* moment between the call and the resumption.  A step of the model is     *)
(* therefore one store call taking effect together with the code that      *)
(* follows it up to the next store call, except that code which broadcasts *)
(* to a room after a store call is a step of its own (other handlers may   *)
(* run between the store call and the broadcast).  The questions table is  *)
(* never written by this server, so a read of it is folded into the step   *)
(* of an adjacent store call, and so is the arrival of the event.  Store   *)
(* calls are taken to succeed.  A handler that has returned keeps its      *)
(* kind, its socket and the error sent to its socket, nothing else.        *)
(*                                                                         *)
(* Strings that the code sorts, joins or compares (answer options) are     *)
(* sequences of UTF-16 code units; average_time is kept in hundredths.     *)
(***************************************************************************)
EXTENDS Integers, Sequences, FiniteSets, TLC

\* ------------------------------------------------------------- bounds
\* Events received in one behaviour of the whole server (Spec).
MaxRequests == 2
\* Events received in one behaviour of the pacing handlers alone (SpecSession).
MaxPacing == 3
\* Questions of the largest quiz.
MaxQuestions == 2
\* The largest time_limit of a question, and the largest time_taken of a
\* submission, where scoring is examined (SpecScoring).
MaxTimeLimit == 6
MaxTimeTaken == 8
\* The longest answer list and correct_answer list where the judging of an
\* answer is examined (SpecJudging).
MaxAnswerLen == 2
\* The longest options list of a question where the shuffle is examined
\* (SpecOptions).
MaxOptions == 3

\* ------------------------------------------------------------- data
NoError == "none"
\* Number.NaN, which no score computed from numbers equals.
NaN == -1

\* "a", "b" and "," as code units.
chA == <<97>>
chB == <<98>>
Comma == 44

SessionIds == {"s1"}
HostUserId == "host"

\* io.on('connection'): socket.data of the connected sockets.
Connections ==
  { [session_id |-> "s1", user_id |-> "host"],
    [session_id |-> "s1", user_id |-> "u1"] }

\* session_participants rows, in the order the store returns them.
ParticipantIds == <<"p1", "p2">>

ParticipantUser(p) == IF p = "p1" THEN "u1" ELSE "u2"

ParticipantSet == {ParticipantIds[i] : i \in 1..Len(ParticipantIds)}

\* The i-th question (order_index i-1) of the quiz; its id is i.
Question(i) ==
  [ id                |-> i,
    options           |-> <<chA, chB>>,
    correct_answer    |-> IF i % 2 = 1 THEN <<chB, chA>> ELSE <<chA>>,
    time_limit        |-> 10 * i,
    order_index       |-> i - 1,
    randomize_options |-> (i % 2 = 0) ]

Quiz(n) == [i \in 1..n |-> Question(i)]

\* submit_answer / reveal_answer payloads; question id 0 names no question.
QuestionIdInputs == 0..MaxQuestions
AnswerInputs == { <<chA, chB>>, <<chA>> }
TimeTakenInputs == {0, 5}

SubmitAnswerData ==
  [ question_id : QuestionIdInputs, answer : AnswerInputs,
    time_taken : TimeTakenInputs, participant_id : ParticipantSet ]

NoData == [question_id |-> 0, answer |-> <<>>, time_taken |-> 0, participant_id |-> "none"]

\* ------------------------------------------------------------- pure functions

\* String comparison by code units (Array.prototype.sort's default order).
RECURSIVE StrLess(_, _)
StrLess(s, t) ==
  IF t = <<>> THEN FALSE
  ELSE IF s = <<>> THEN TRUE
  ELSE IF Head(s) # Head(t) THEN Head(s) < Head(t)
  ELSE StrLess(Tail(s), Tail(t))

\* Insert string x into the sorted list of strings l, after its equals.
RECURSIVE InsertStr(_, _)
InsertStr(x, l) ==
  IF l = <<>> THEN <<x>>
  ELSE IF StrLess(x, Head(l)) THEN <<x>> \o l
  ELSE <<Head(l)>> \o InsertStr(x, Tail(l))

\* array.sort() on a list of strings.
RECURSIVE SortStrings(_)
SortStrings(l) ==
  IF l = <<>> THEN <<>> ELSE InsertStr(l[Len(l)], SortStrings(SubSeq(l, 1, Len(l) - 1)))

\* array.join(',') on a list of strings.
RECURSIVE JoinComma(_)
JoinComma(l) ==
  IF l = <<>> THEN <<>>
  ELSE IF Len(l) = 1 THEN l[1]
  ELSE l[1] \o <<Comma>> \o JoinComma(Tail(l))

\* handleSubmitAnswer: sort both lists, join, compare.
IsCorrectAnswer(correct_answer, answer) ==
  JoinComma(SortStrings(correct_answer)) = JoinComma(SortStrings(answer))

\* Math.round of the non-negative rational num/den (den > 0): half rounds up.
RoundDiv(num, den) == (2 * num + den) \div (2 * den)

\* A calculatePoints that truncates (Math.floor) instead of rounding.
calculatePoints_floor(isCorrect, timeTaken, timeLimit) ==
  IF ~isCorrect THEN 0
  ELSE IF timeLimit = 0 THEN (IF timeTaken = 0 THEN NaN ELSE 500)
  ELSE IF timeTaken >= timeLimit THEN 500
  ELSE (500 * timeLimit + 500 * (timeLimit - timeTaken)) \div timeLimit

\* calculatePoints.  timeTaken >= 0.  With timeLimit = 0 the quotient is
\* Infinity (ratio clamps to 0) unless timeTaken = 0, where 0/0 is NaN and
\* Math.max, the product, the sum and Math.round all return NaN.
calculatePoints(isCorrect, timeTaken, timeLimit) ==
  IF ~isCorrect THEN 0
  ELSE IF timeLimit = 0 THEN (IF timeTaken = 0 THEN NaN ELSE 500)
  ELSE IF timeTaken >= timeLimit THEN 500
  ELSE RoundDiv(500 * timeLimit + 500 * (timeLimit - timeTaken), timeLimit)

\* total_score + points in JavaScript numbers.
AddScore(a, b) == IF a = NaN \/ b = NaN THEN NaN ELSE a + b

\* An exchange that forgets to write the second element.
Swap_copy(arr, i, j) == [arr EXCEPT ![i] = arr[j]]

\* [shuffled[i], shuffled[j]] = [shuffled[j], shuffled[i]]
Swap(arr, i, j) == [arr EXCEPT ![i] = arr[j], ![j] = arr[i]]

\* shuffleArray: the loop from index i (1-based) down to 2, every value of
\* Math.floor(Math.random() * i) chosen; the set of arrays it can return.
RECURSIVE ShuffleFrom(_, _)
ShuffleFrom(arr, i) ==
  IF i <= 1 THEN {arr}
  ELSE UNION { ShuffleFrom(Swap(arr, i, j), i - 1) : j \in 1..i }

shuffleArray(array) == ShuffleFrom(array, Len(array))

\* ------------------------------------------------------------- state

\* A null started_at / ended_at.
NullTime == 0

VARIABLES
  questions,          \* table questions: the quiz of the session, by order_index
  quiz_sessions,      \* table quiz_sessions: session id -> row
  session_participants, \* table session_participants: participant id -> row
  quiz_answers,       \* table quiz_answers: rows in insertion order
  handlers,           \* the handler invocations: position and local variables
  room,               \* io.to(session_id).emit: events broadcast to each room
  now                 \* the clock read by new Date()

vars == <<questions, quiz_sessions, session_participants, quiz_answers, handlers, room, now>>

Requests == 1..(IF MaxRequests > MaxPacing THEN MaxRequests ELSE MaxPacing)

NoSession ==
  [ found |-> FALSE, host_user_id |-> "none", status |-> "none",
    current_question_index |-> -1 ]

IdleHandler ==
  [ kind |-> "idle", pc |-> "idle", session_id |-> "none", user_id |-> "none",
    data |-> NoData, session |-> NoSession, stamp |-> NullTime, nextIndex |-> -1,
    isCorrect |-> FALSE, points |-> 0, total_score |-> 0,
    results |-> <<>>, participants |-> <<>>, pending |-> {}, entries |-> <<>>,
    error |-> NoError ]

\* The current_question_index of a session not yet started: -1, or 0 (an
\* absent index counts as 0 in index + 1).
InitialIndexes == {-1, 0}

Init ==
  /\ questions \in {Quiz(n) : n \in 0..MaxQuestions}
  /\ quiz_sessions \in
       [SessionIds ->
          [ host_user_id : {HostUserId}, status : {"waiting"},
            current_question_index : InitialIndexes,
            started_at : {NullTime}, ended_at : {NullTime} ]]
  /\ session_participants =
       [p \in ParticipantSet |->
          [ id |-> p, quiz_session_id |-> "s1", user_id |-> ParticipantUser(p),
            total_score |-> 0 ]]
  /\ quiz_answers = <<>>
  /\ handlers = [r \in Requests |-> IdleHandler]
  /\ room = [s \in SessionIds |-> <<>>]
  /\ now = 1

\* ------------------------------------------------------------- store reads

\* from('quiz_sessions').select('*').eq('id', session_id).single()
SelectSession(session_id) ==
  IF session_id \in DOMAIN quiz_sessions
  THEN [ found |-> TRUE,
         host_user_id |-> quiz_sessions[session_id].host_user_id,
         status |-> quiz_sessions[session_id].status,
         current_question_index |-> quiz_sessions[session_id].current_question_index ]
  ELSE NoSession

\* from('quiz_sessions').select('host_user_id').eq('id', session_id).single()
SelectSessionHost(session_id) ==
  IF session_id \in DOMAIN quiz_sessions
  THEN [NoSession EXCEPT !.found = TRUE,
                         !.host_user_id = quiz_sessions[session_id].host_user_id]
  ELSE NoSession

\* from('questions').select('*').eq('id', question_id).single() found a row
QuestionExists(question_id) == question_id \in 1..Len(questions)

\* return: the locals are gone.
Return(h) ==
  [IdleHandler EXCEPT !.kind = h.kind, !.pc = "done", !.session_id = h.session_id,
                      !.user_id = h.user_id]

\* A return that sends nothing to the socket.
Fail_silent(h, message) == Return(h)

\* socket.emit('error', ...) and return
Fail(h, message) == [Return(h) EXCEPT !.error = message]

\* The events are received in the order of the request numbers.
CanBegin(r) ==
  /\ handlers[r].kind = "idle"
  /\ \A q \in Requests : q < r => handlers[q].kind # "idle"

Arrived(r, kind, c) ==
  [handlers[r] EXCEPT !.kind = kind, !.session_id = c.session_id, !.user_id = c.user_id]

Emit(session_id, events) == room' = [room EXCEPT ![session_id] = @ \o events]

\* ------------------------------------------------------------- sendQuestion

\* A sendQuestion that sends the stored question row whole.
sendQuestion_wholeRow(session_id, question, currentIndex, totalQuestions) ==
  { [ type |-> "question", session_id |-> session_id,
      question |-> [question EXCEPT !.options = options],
      current_question_index |-> currentIndex,
      total_questions |-> totalQuestions ] :
    options \in IF question.randomize_options
                THEN shuffleArray(question.options)
                ELSE {question.options} }

\* The question events sendQuestion can broadcast (one per outcome of the shuffle).
sendQuestion(session_id, question, currentIndex, totalQuestions) ==
  { [ type |-> "question", session_id |-> session_id,
      question |-> [ id |-> question.id, options |-> options,
                     time_limit |-> question.time_limit,
                     order_index |-> question.order_index ],
      current_question_index |-> currentIndex,
      total_questions |-> totalQuestions ] :
    options \in IF question.randomize_options
                THEN shuffleArray(question.options)
                ELSE {question.options} }

\* ------------------------------------------------------------- handleStartQuiz

\* The comparison of the caller with the session's host_user_id.
StartAuthorized(session, user_id) == session.host_user_id = user_id

\* A handler that starts whatever the questions query returned.
NoQuestions_ignored(qs) == FALSE

\* !questions || questions.length === 0
NoQuestions(qs) == Len(qs) = 0

StartQuiz_begin(r, c) ==
  /\ CanBegin(r)
  /\ LET h == Arrived(r, "start_quiz", c)
         session == SelectSession(c.session_id)
     IN  /\ handlers' = [handlers EXCEPT ![r] =
               IF ~session.found THEN Fail(h, "Quiz session not found")
               ELSE IF ~StartAuthorized(session, c.user_id)
                 THEN Fail([h EXCEPT !.session = session], "Only the host can start the quiz")
               ELSE IF NoQuestions(questions)
                 THEN Fail([h EXCEPT !.session = session], "No questions found for this quiz")
               ELSE [h EXCEPT !.session = session, !.stamp = now, !.pc = "start_update"]]
         /\ now' = IF handlers'[r].pc = "start_update" THEN now + 1 ELSE now
  /\ UNCHANGED <<questions, quiz_sessions, session_participants, quiz_answers, room>>

StartQuiz_update(r) ==
  /\ handlers[r].pc = "start_update"
  /\ quiz_sessions' = [quiz_sessions EXCEPT ![handlers[r].session_id] =
        [@ EXCEPT !.status = "in_progress", !.started_at = handlers[r].stamp,
                  !.current_question_index = 0]]
  /\ handlers' = [handlers EXCEPT ![r].pc = "start_broadcast"]
  /\ UNCHANGED <<questions, session_participants, quiz_answers, room, now>>

StartQuiz_broadcast(r) ==
  /\ handlers[r].pc = "start_broadcast"
  /\ \E q \in sendQuestion(handlers[r].session_id, questions[1], 0, Len(questions)) :
       Emit(handlers[r].session_id,
            << [ type |-> "quiz_started", session_id |-> handlers[r].session_id,
                 current_question_index |-> 0, total_questions |-> Len(questions) ],
               q >>)
  /\ handlers' = [handlers EXCEPT ![r] = Return(@)]
  /\ UNCHANGED <<questions, quiz_sessions, session_participants, quiz_answers, now>>

handleStartQuiz(r) ==
  \/ \E c \in Connections : StartQuiz_begin(r, c)
  \/ StartQuiz_update(r)
  \/ StartQuiz_broadcast(r)

\* ------------------------------------------------------------- calculateLeaderboard

\* from('session_participants').select(...).eq('quiz_session_id', session_id)
SelectParticipants(session_id) ==
  LET F[i \in 0..Len(ParticipantIds)] ==
        IF i = 0 THEN <<>>
        ELSE LET p == session_participants[ParticipantIds[i]]
             IN  IF p.quiz_session_id = session_id
                 THEN Append(F[i - 1], [id |-> p.id, user_id |-> p.user_id,
                                        total_score |-> p.total_score])
                 ELSE F[i - 1]
  IN  F[Len(ParticipantIds)]

\* The rows of a table at the positions in keep, in order.
SelectRows(rows, keep) ==
  LET F[i \in 0..Len(rows)] ==
        IF i = 0 THEN <<>>
        ELSE IF i \in keep THEN Append(F[i - 1], rows[i]) ELSE F[i - 1]
  IN  F[Len(rows)]

\* from('quiz_answers').select(...).eq('participant_id', p.id).eq('quiz_session_id', session_id)
AnswersOfParticipant(participant_id, session_id) ==
  SelectRows(quiz_answers,
             {i \in 1..Len(quiz_answers) :
                /\ quiz_answers[i].participant_id = participant_id
                /\ quiz_answers[i].quiz_session_id = session_id})

\* from('quiz_answers').select(...).eq('question_id', question_id).eq('quiz_session_id', session_id)
AnswersOfQuestion(question_id, session_id) ==
  SelectRows(quiz_answers,
             {i \in 1..Len(quiz_answers) :
                /\ quiz_answers[i].question_id = question_id
                /\ quiz_answers[i].quiz_session_id = session_id})

RECURSIVE SumTimeTaken(_)
SumTimeTaken(answers) ==
  IF answers = <<>> THEN 0 ELSE Head(answers).time_taken + SumTimeTaken(Tail(answers))

RECURSIVE CountCorrect(_)
CountCorrect(answers) ==
  IF answers = <<>> THEN 0
  ELSE (IF Head(answers).is_correct THEN 1 ELSE 0) + CountCorrect(Tail(answers))

\* The entry the map callback returns for participant row p and its answers;
\* average_time in hundredths: Math.round(avgTime * 100).
LeaderboardEntry(p, answers) ==
  [ participant_id |-> p.id, user_id |-> p.user_id, username |-> p.user_id,
    total_score |-> p.total_score,
    correct_answers |-> CountCorrect(answers),
    total_answers |-> Len(answers),
    average_time |-> IF Len(answers) > 0
                     THEN RoundDiv(100 * SumTimeTaken(answers), Len(answers))
                     ELSE 0 ]

\* A comparator that leaves ties in total_score as they are.
LeaderboardBefore_scoreOnly(a, b) == b.total_score - a.total_score < 0

\* The sort comparator is negative: a goes before b.
LeaderboardBefore(a, b) ==
  IF b.total_score # a.total_score
  THEN b.total_score - a.total_score < 0
  ELSE a.average_time - b.average_time < 0

\* Stable insertion of x into the sorted list l.
RECURSIVE InsertEntry(_, _)
InsertEntry(x, l) ==
  IF l = <<>> THEN <<x>>
  ELSE IF LeaderboardBefore(x, Head(l)) THEN <<x>> \o l
  ELSE <<Head(l)>> \o InsertEntry(x, Tail(l))

\* leaderboard.sort(comparator): Array.prototype.sort is stable.
RECURSIVE SortLeaderboard(_)
SortLeaderboard(l) ==
  IF l = <<>> THEN <<>>
  ELSE InsertEntry(l[Len(l)], SortLeaderboard(SubSeq(l, 1, Len(l) - 1)))

\* The step after the leaderboard is complete.
AfterLeaderboard(h) == IF h.kind = "reveal_answer" THEN "reveal_broadcast" ELSE "end_broadcast"

\* The participants query, and the answers queries of Promise.all issued.
Leaderboard_participants(r) ==
  /\ handlers[r].pc = "leaderboard_participants"
  /\ LET ps == SelectParticipants(handlers[r].session_id)
     IN  handlers' = [handlers EXCEPT ![r] =
           [@ EXCEPT !.participants = ps,
                     !.entries = [i \in 1..Len(ps) |-> LeaderboardEntry(ps[i], <<>>)],
                     !.pending = 1..Len(ps),
                     !.pc = IF Len(ps) = 0 THEN AfterLeaderboard(@) ELSE "leaderboard_answers"]]
  /\ UNCHANGED <<questions, quiz_sessions, session_participants, quiz_answers, room, now>>

\* One answers query of Promise.all takes effect; they do so in any order.
Leaderboard_answers(r) ==
  /\ handlers[r].pc = "leaderboard_answers"
  /\ \E i \in handlers[r].pending :
       LET h == handlers[r]
           answers == AnswersOfParticipant(h.participants[i].id, h.session_id)
       IN  handlers' = [handlers EXCEPT ![r] =
             [@ EXCEPT !.entries[i] = LeaderboardEntry(h.participants[i], answers),
                       !.pending = @ \ {i},
                       !.pc = IF h.pending = {i} THEN AfterLeaderboard(h) ELSE @]]
  /\ UNCHANGED <<questions, quiz_sessions, session_participants, quiz_answers, room, now>>

calculateLeaderboard(r) ==
  \/ Leaderboard_participants(r)
  \/ Leaderboard_answers(r)

\* ------------------------------------------------------------- endQuiz

\* An update that leaves ended_at out.
EndQuiz_update_statusOnly(r) ==
  /\ handlers[r].pc = "end_update"
  /\ quiz_sessions' = [quiz_sessions EXCEPT ![handlers[r].session_id].status = "completed"]
  /\ handlers' = [handlers EXCEPT ![r].pc = "leaderboard_participants"]
  /\ UNCHANGED <<questions, session_participants, quiz_answers, room, now>>

EndQuiz_update(r) ==
  /\ handlers[r].pc = "end_update"
  /\ quiz_sessions' = [quiz_sessions EXCEPT ![handlers[r].session_id] =
        [@ EXCEPT !.status = "completed", !.ended_at = handlers[r].stamp]]
  /\ handlers' = [handlers EXCEPT ![r].pc = "leaderboard_participants"]
  /\ UNCHANGED <<questions, session_participants, quiz_answers, room, now>>

EndQuiz_broadcast(r) ==
  /\ handlers[r].pc = "end_broadcast"
  /\ Emit(handlers[r].session_id,
          << [ type |-> "quiz_completed", session_id |-> handlers[r].session_id,
               final_leaderboard |-> SortLeaderboard(handlers[r].entries) ] >>)
  /\ handlers' = [handlers EXCEPT ![r] = Return(@)]
  /\ UNCHANGED <<questions, quiz_sessions, session_participants, quiz_answers, now>>

endQuiz(r) ==
  \/ EndQuiz_update(r)
  \/ EndQuiz_broadcast(r)

\* ------------------------------------------------------------- handleNextQuestion

\* A handler that forgets the comparison with host_user_id.
NextAuthorized_anyUser(session, user_id) == session.found

NextAuthorized(session, user_id) == session.found /\ session.host_user_id = user_id

\* An off-by-one comparison: nextIndex > questions.length.
QuizIsComplete_offByOne(nextIndex, length) == nextIndex > length

\* nextIndex >= questions.length
QuizIsComplete(nextIndex, length) == nextIndex >= length

NextQuestion_begin(r, c) ==
  /\ CanBegin(r)
  /\ LET h == Arrived(r, "next_question", c)
         session == SelectSession(c.session_id)
         nextIndex == session.current_question_index + 1
     IN  /\ handlers' = [handlers EXCEPT ![r] =
               IF ~NextAuthorized(session, c.user_id)
                 THEN Fail([h EXCEPT !.session = session], "Only the host can advance questions")
               ELSE IF QuizIsComplete(nextIndex, Len(questions))
                 THEN [h EXCEPT !.session = session, !.nextIndex = nextIndex,
                                !.stamp = now, !.pc = "end_update"]
               ELSE [h EXCEPT !.session = session, !.nextIndex = nextIndex,
                              !.pc = "next_update"]]
         /\ now' = IF handlers'[r].pc = "end_update" THEN now + 1 ELSE now
  /\ UNCHANGED <<questions, quiz_sessions, session_participants, quiz_answers, room>>

\* An update that does not reach the store: the index stays as it was.
NextQuestion_update_lost(r) ==
  /\ handlers[r].pc = "next_update"
  /\ handlers' = [handlers EXCEPT ![r].pc = "next_broadcast"]
  /\ UNCHANGED <<questions, quiz_sessions, session_participants, quiz_answers, room, now>>

\* from('quiz_sessions').update({ current_question_index: nextIndex })
NextQuestion_update(r) ==
  /\ handlers[r].pc = "next_update"
  /\ quiz_sessions' = [quiz_sessions EXCEPT ![handlers[r].session_id] =
        [@ EXCEPT !.current_question_index = handlers[r].nextIndex]]
  /\ handlers' = [handlers EXCEPT ![r].pc = "next_broadcast"]
  /\ UNCHANGED <<questions, session_participants, quiz_answers, room, now>>

\* The next_question event, then sendQuestion; a questions[nextIndex] that is
\* undefined makes sendQuestion throw, which the catch block reports.
NextQuestion_broadcast(r) ==
  /\ handlers[r].pc = "next_broadcast"
  /\ LET h == handlers[r]
         next_question == [ type |-> "next_question", session_id |-> h.session_id,
                            current_question_index |-> h.nextIndex,
                            total_questions |-> Len(questions) ]
     IN  IF h.nextIndex + 1 \in 1..Len(questions)
         THEN /\ \E q \in sendQuestion(h.session_id, questions[h.nextIndex + 1], h.nextIndex,
                                       Len(questions)) :
                   Emit(h.session_id, <<next_question, q>>)
              /\ handlers' = [handlers EXCEPT ![r] = Return(@)]
         ELSE /\ Emit(h.session_id, <<next_question>>)
              /\ handlers' = [handlers EXCEPT ![r] = Fail(@, "Failed to advance question")]
  /\ UNCHANGED <<questions, quiz_sessions, session_participants, quiz_answers, now>>

handleNextQuestion(r) ==
  \/ \E c \in Connections : NextQuestion_begin(r, c)
  \/ NextQuestion_update(r)
  \/ NextQuestion_broadcast(r)

\* ------------------------------------------------------------- handleEndQuiz

EndAuthorized(session, user_id) == session.found /\ session.host_user_id = user_id

EndQuiz_begin(r, c) ==
  /\ CanBegin(r)
  /\ LET h == Arrived(r, "end_quiz", c)
         session == SelectSessionHost(c.session_id)
     IN  /\ handlers' = [handlers EXCEPT ![r] =
               IF ~EndAuthorized(session, c.user_id)
                 THEN Fail([h EXCEPT !.session = session], "Only the host can end the quiz")
               ELSE [h EXCEPT !.session = session, !.stamp = now, !.pc = "end_update"]]
         /\ now' = IF handlers'[r].pc = "end_update" THEN now + 1 ELSE now
  /\ UNCHANGED <<questions, quiz_sessions, session_participants, quiz_answers, room>>

handleEndQuiz(r) == \E c \in Connections : EndQuiz_begin(r, c)

\* ------------------------------------------------------------- handleRevealAnswer

RevealAuthorized(session, user_id) == session.found /\ session.host_user_id = user_id

Reveal_begin(r, c, question_id) ==
  /\ CanBegin(r)
  /\ LET h == [Arrived(r, "reveal_answer", c) EXCEPT !.data.question_id = question_id]
         session == SelectSessionHost(c.session_id)
     IN  handlers' = [handlers EXCEPT ![r] =
           IF ~RevealAuthorized(session, c.user_id)
             THEN Fail([h EXCEPT !.session = session], "Only the host can reveal answers")
           ELSE IF ~QuestionExists(question_id)
             THEN Return(h)
           ELSE [h EXCEPT !.session = session, !.pc = "reveal_answers"]]
  /\ UNCHANGED <<questions, quiz_sessions, session_participants, quiz_answers, room, now>>

\* The results mapped from one answers row (joined with its participant and user).
ParticipantResult(a) ==
  [ participant_id |-> a.participant_id,
    username |-> session_participants[a.participant_id].user_id,
    is_correct |-> a.is_correct, points_earned |-> a.points_earned,
    time_taken |-> a.time_taken, answer |-> a.answer ]

Reveal_answers(r) ==
  /\ handlers[r].pc = "reveal_answers"
  /\ LET h == handlers[r]
         answers == AnswersOfQuestion(h.data.question_id, h.session_id)
     IN  handlers' = [handlers EXCEPT ![r] =
           [@ EXCEPT !.results = [i \in 1..Len(answers) |-> ParticipantResult(answers[i])],
                     !.pc = "leaderboard_participants"]]
  /\ UNCHANGED <<questions, quiz_sessions, session_participants, quiz_answers, room, now>>

Reveal_broadcast(r) ==
  /\ handlers[r].pc = "reveal_broadcast"
  /\ LET h == handlers[r]
     IN  Emit(h.session_id,
              << [ type |-> "answer_revealed", session_id |-> h.session_id,
                   question_id |-> h.data.question_id,
                   correct_answer |-> questions[h.data.question_id].correct_answer,
                   results |-> h.results,
                   leaderboard |-> SortLeaderboard(h.entries) ] >>)
  /\ handlers' = [handlers EXCEPT ![r] = Return(@)]
  /\ UNCHANGED <<questions, quiz_sessions, session_participants, quiz_answers, now>>

handleRevealAnswer(r) ==
  \/ \E c \in Connections, question_id \in QuestionIdInputs : Reveal_begin(r, c, question_id)
  \/ Reveal_answers(r)
  \/ Reveal_broadcast(r)

\* ------------------------------------------------------------- handleSubmitAnswer

\* The event arrives, the question is read, the answer judged and scored and
\* the row inserted: from('quiz_answers').insert(...).  answer.sort() sorts
\* the payload's list in place, so the sorted list is what is stored.
SubmitAnswer_insert(r, c, data) ==
  /\ CanBegin(r)
  /\ LET h == [Arrived(r, "submit_answer", c) EXCEPT !.data = data]
     IN  IF ~QuestionExists(data.question_id)
         THEN /\ handlers' = [handlers EXCEPT ![r] = Fail(h, "Question not found")]
              /\ UNCHANGED quiz_answers
         ELSE LET question == questions[data.question_id]
                  isCorrect == IsCorrectAnswer(question.correct_answer, data.answer)
                  points == calculatePoints(isCorrect, data.time_taken, question.time_limit)
              IN  /\ quiz_answers' = Append(quiz_answers,
                        [ quiz_session_id |-> c.session_id,
                          participant_id |-> data.participant_id,
                          question_id |-> data.question_id,
                          answer |-> SortStrings(data.answer),
                          is_correct |-> isCorrect,
                          time_taken |-> data.time_taken,
                          points_earned |-> points ])
                  /\ handlers' = [handlers EXCEPT ![r] =
                        [h EXCEPT !.data.answer = SortStrings(data.answer),
                                  !.isCorrect = isCorrect, !.points = points,
                                  !.pc = IF isCorrect THEN "submit_select"
                                         ELSE "submit_broadcast"]]
  /\ UNCHANGED <<questions, quiz_sessions, session_participants, room, now>>

\* from('session_participants').select('total_score').eq('id', participant_id).single()
SubmitAnswer_select(r) ==
  /\ handlers[r].pc = "submit_select"
  /\ LET h == handlers[r]
     IN  handlers' = [handlers EXCEPT ![r] =
           IF h.data.participant_id \in DOMAIN session_participants
           THEN [@ EXCEPT !.total_score = session_participants[h.data.participant_id].total_score,
                          !.pc = "submit_update"]
           ELSE [@ EXCEPT !.pc = "submit_broadcast"]]
  /\ UNCHANGED <<questions, quiz_sessions, session_participants, quiz_answers, room, now>>

\* The total_score written: the one read plus the points.
NewTotalScore(total_score, points) == AddScore(total_score, points)

\* from('session_participants').update({ total_score }).eq('id', participant_id)
SubmitAnswer_update(r) ==
  /\ handlers[r].pc = "submit_update"
  /\ LET h == handlers[r]
     IN  session_participants' = [session_participants EXCEPT
           ![h.data.participant_id].total_score = NewTotalScore(h.total_score, h.points)]
  /\ handlers' = [handlers EXCEPT ![r].pc = "submit_broadcast"]
  /\ UNCHANGED <<questions, quiz_sessions, quiz_answers, room, now>>

SubmitAnswer_broadcast(r) ==
  /\ handlers[r].pc = "submit_broadcast"
  /\ LET h == handlers[r]
     IN  Emit(h.session_id,
              << [ type |-> "answer_submitted", session_id |-> h.session_id,
                   participant_id |-> h.data.participant_id,
                   question_id |-> h.data.question_id ] >>)
  /\ handlers' = [handlers EXCEPT ![r] = Return(@)]
  /\ UNCHANGED <<questions, quiz_sessions, session_participants, quiz_answers, now>>

handleSubmitAnswer(r) ==
  \/ \E c \in Connections, data \in SubmitAnswerData : SubmitAnswer_insert(r, c, data)
  \/ SubmitAnswer_select(r)
  \/ SubmitAnswer_update(r)
  \/ SubmitAnswer_broadcast(r)

\* ------------------------------------------------------------- the server

\* socket.on(...): any connected socket may send any event at any time.
Next ==
  \E r \in 1..MaxRequests :
    \/ handleStartQuiz(r)
    \/ handleSubmitAnswer(r)
    \/ handleRevealAnswer(r)
    \/ handleNextQuestion(r)
    \/ handleEndQuiz(r)
    \/ endQuiz(r)
    \/ calculateLeaderboard(r)

Spec == Init /\ [][Next]_vars

\* The server when no socket sends submit_answer: the pacing events alone.
NextSession ==
  \E r \in 1..MaxPacing :
    \/ handleStartQuiz(r)
    \/ handleRevealAnswer(r)
    \/ handleNextQuestion(r)
    \/ handleEndQuiz(r)
    \/ endQuiz(r)
    \/ calculateLeaderboard(r)

SpecSession == Init /\ [][NextSession]_vars

\* ------------------------------------------------------------- scoring

\* A quiz of one question with the given time_limit (correct_answer ["a"]).
TimedQuiz(time_limit) ==
  << [Question(1) EXCEPT !.correct_answer = <<chA>>, !.time_limit = time_limit] >>

\* The submit_answer payloads for that question: right or wrong, any time.
ScoringData ==
  [ question_id : {1}, answer : { <<chA>>, <<chB>> },
    time_taken : 0..MaxTimeTaken, participant_id : ParticipantSet ]

\* The tables of a session at its first question, no answer yet, no event
\* received yet.
InPlay ==
  /\ quiz_sessions =
       [s \in SessionIds |->
          [ host_user_id |-> HostUserId, status |-> "in_progress",
            current_question_index |-> 0, started_at |-> 1, ended_at |-> NullTime ]]
  /\ session_participants =
       [p \in ParticipantSet |->
          [ id |-> p, quiz_session_id |-> "s1", user_id |-> ParticipantUser(p),
            total_score |-> 0 ]]
  /\ quiz_answers = <<>>
  /\ handlers = [r \in Requests |-> IdleHandler]
  /\ room = [s \in SessionIds |-> <<>>]
  /\ now = 2

InitScoring ==
  /\ questions \in {TimedQuiz(time_limit) : time_limit \in 0..MaxTimeLimit}
  /\ InPlay

\* One submit_answer from a participant's socket, handled to its end.
NextScoring ==
  \/ \E data \in ScoringData :
       SubmitAnswer_insert(1, [session_id |-> "s1", user_id |-> "u1"], data)
  \/ SubmitAnswer_select(1)
  \/ SubmitAnswer_update(1)
  \/ SubmitAnswer_broadcast(1)

SpecScoring == InitScoring /\ [][NextScoring]_vars

\* ------------------------------------------------------------- judging

\* The option "a,b".
chAB == chA \o <<Comma>> \o chB

OptionStrings == {chA, chB, chAB}

\* The lists of at most MaxAnswerLen option strings.
AnswerLists == UNION { [1..n -> OptionStrings] : n \in 0..MaxAnswerLen }

\* A quiz of one question with the given correct_answer.
JudgedQuiz(correct_answer) ==
  << [Question(1) EXCEPT !.options = <<chA, chB, chAB>>,
                         !.correct_answer = correct_answer] >>

\* The submit_answer payloads for that question: any answer list, and a
\* field is_correct that a client may add to the payload.
JudgingData ==
  [ question_id : {1}, answer : AnswerLists, time_taken : {5},
    participant_id : {"p1"}, is_correct : BOOLEAN ]

InitJudging ==
  /\ questions \in {JudgedQuiz(correct_answer) : correct_answer \in AnswerLists \ {<<>>}}
  /\ InPlay

NextJudging ==
  \/ \E data \in JudgingData :
       SubmitAnswer_insert(1, [session_id |-> "s1", user_id |-> "u1"], data)
  \/ SubmitAnswer_select(1)
  \/ SubmitAnswer_update(1)
  \/ SubmitAnswer_broadcast(1)

SpecJudging == InitJudging /\ [][NextJudging]_vars

\* ------------------------------------------------------------- leaderboard

\* What a participant did with one question: answered right or wrong, fast
\* or at the time limit of the first question.
Attempts == [is_correct : BOOLEAN, time_taken : {0, 10}]

\* The attempts of a participant at the first questions of the quiz, in order.
Histories == UNION { [1..n -> Attempts] : n \in 0..MaxQuestions }

\* The quiz_answers rows handleSubmitAnswer inserted for the history.
RowsOf(p, history) ==
  [ q \in 1..Len(history) |->
      [ quiz_session_id |-> "s1", participant_id |-> p, question_id |-> q,
        answer |-> IF history[q].is_correct
                   THEN SortStrings(Question(q).correct_answer) ELSE <<>>,
        is_correct |-> history[q].is_correct,
        time_taken |-> history[q].time_taken,
        points_earned |-> calculatePoints(history[q].is_correct, history[q].time_taken,
                                          Question(q).time_limit) ] ]

\* The total_score handleSubmitAnswer accumulated for the rows.
RECURSIVE ScoreOf(_)
ScoreOf(rows) ==
  IF rows = <<>> THEN 0 ELSE AddScore(ScoreOf(Tail(rows)), Head(rows).points_earned)

\* A session at its last question after the participants answered, each
\* submission handled to its end before the next; no event in flight.
InitLeaderboard ==
  /\ questions = Quiz(MaxQuestions)
  /\ quiz_sessions =
       [s \in SessionIds |->
          [ host_user_id |-> HostUserId, status |-> "in_progress",
            current_question_index |-> MaxQuestions - 1, started_at |-> 1,
            ended_at |-> NullTime ]]
  /\ \E h1, h2 \in Histories :
       /\ quiz_answers = RowsOf("p1", h1) \o RowsOf("p2", h2)
       /\ session_participants =
            [p \in ParticipantSet |->
               [ id |-> p, quiz_session_id |-> "s1", user_id |-> ParticipantUser(p),
                 total_score |-> ScoreOf(RowsOf(p, IF p = "p1" THEN h1 ELSE h2)) ]]
  /\ handlers = [r \in Requests |-> IdleHandler]
  /\ room = [s \in SessionIds |-> <<>>]
  /\ now = 2

\* One reveal_answer or end_quiz, handled to its end.
NextLeaderboard ==
  \/ handleRevealAnswer(1)
  \/ handleEndQuiz(1)
  \/ endQuiz(1)
  \/ calculateLeaderboard(1)

SpecLeaderboard == InitLeaderboard /\ [][NextLeaderboard]_vars

\* ------------------------------------------------------------- options

\* The options lists of at most MaxOptions strings (a string may repeat).
OptionLists == UNION { [1..n -> OptionStrings] : n \in 0..MaxOptions }

\* A quiz of one question with the given options and randomize_options.
OptionsQuiz(options, randomize_options) ==
  << [Question(1) EXCEPT !.options = options,
                         !.randomize_options = randomize_options] >>

\* A waiting session on such a quiz; no event received yet.
InitOptions ==
  /\ questions \in {OptionsQuiz(options, randomize_options) :
                      options \in OptionLists, randomize_options \in BOOLEAN}
  /\ quiz_sessions =
       [s \in SessionIds |->
          [ host_user_id |-> HostUserId, status |-> "waiting",
            current_question_index |-> -1, started_at |-> NullTime,
            ended_at |-> NullTime ]]
  /\ session_participants =
       [p \in ParticipantSet |->
          [ id |-> p, quiz_session_id |-> "s1", user_id |-> ParticipantUser(p),
            total_score |-> 0 ]]
  /\ quiz_answers = <<>>
  /\ handlers = [r \in Requests |-> IdleHandler]
  /\ room = [s \in SessionIds |-> <<>>]
  /\ now = 1

\* One start_quiz, handled to its end: its sendQuestion sends the question.
NextOptions == handleStartQuiz(1)

SpecOptions == InitOptions /\ [][NextOptions]_vars

\* ------------------------------------------------------------- host pacing

\* The host's socket.
HostConnection == [session_id |-> "s1", user_id |-> HostUserId]

\* No handler invocation is in progress.
NoneInFlight == \A r \in Requests : handlers[r].kind = "idle"

\* The handler's promise settles: the invocation is over.
Settled(r) ==
  /\ handlers[r].pc = "done"
  /\ handlers' = [handlers EXCEPT ![r] = IdleHandler]
  /\ UNCHANGED <<questions, quiz_sessions, session_participants, quiz_answers, room, now>>

\* The host starts the waiting session.
HostStarts ==
  /\ NoneInFlight
  /\ quiz_sessions[HostConnection.session_id].status = "waiting"
  /\ StartQuiz_begin(1, HostConnection)

\* The host reveals the answer of the current question, once.
HostReveals ==
  LET session == quiz_sessions[HostConnection.session_id] IN
  /\ NoneInFlight
  /\ session.status = "in_progress"
  /\ \A i \in 1..Len(room[HostConnection.session_id]) :
       LET e == room[HostConnection.session_id][i]
       IN  e.type = "answer_revealed" => e.question_id # session.current_question_index + 1
  /\ Reveal_begin(1, HostConnection, session.current_question_index + 1)

\* The host advances the session in progress.
HostAdvances ==
  /\ NoneInFlight
  /\ quiz_sessions[HostConnection.session_id].status = "in_progress"
  /\ NextQuestion_begin(1, HostConnection)

\* A store call of the handler in progress returns, or it broadcasts.
HandlerContinues ==
  \/ StartQuiz_update(1)
  \/ StartQuiz_broadcast(1)
  \/ Reveal_answers(1)
  \/ Reveal_broadcast(1)
  \/ NextQuestion_update(1)
  \/ NextQuestion_broadcast(1)
  \/ endQuiz(1)
  \/ calculateLeaderboard(1)

\* The host alone paces the session, one event at a time, each sent when the
\* one before has been handled to its end.
NextPacing ==
  \/ HostStarts
  \/ HostReveals
  \/ HostAdvances
  \/ HandlerContinues
  \/ Settled(1)

\* Store calls return and handlers run on; the host keeps sending
\* next_question while the session is in progress.
SpecPacing ==
  /\ Init
  /\ [][NextPacing]_vars
  /\ WF_vars(HandlerContinues)
  /\ WF_vars(Settled(1))
  /\ WF_vars(HostAdvances)

\* ------------------------------------------------------------- properties

HostOnlyKinds == {"start_quiz", "reveal_answer", "next_question", "end_quiz"}

\* Handler r takes this step.
Stepped(r) == handlers'[r] # handlers[r]

\* This step is the arrival of an event of the kind at handler r.
Begins(r, kind) == handlers[r].kind = "idle" /\ handlers'[r].kind = kind

\* The step rejects r's event: an error to its socket, and nothing else happens.
Rejected(r) ==
  /\ handlers'[r].pc = "done"
  /\ handlers'[r].error # NoError
  /\ UNCHANGED <<quiz_sessions, session_participants, quiz_answers, room>>

StatusRank(status) ==
  CASE status = "waiting" -> 0
    [] status = "in_progress" -> 1
    [] status = "completed" -> 2

\* C1: the stored status of a session never steps backward: no step takes it
\* from completed to in_progress or waiting, or from in_progress to waiting.
C1_StatusMonotonic ==
  [][\A s \in SessionIds :
       StatusRank(quiz_sessions'[s].status) >= StatusRank(quiz_sessions[s].status)]_vars

\* C2: every step of a host-only event whose socket's user_id is not the
\* session's host_user_id rejects it: an error to that socket alone, no
\* broadcast, session, scores and answers unchanged.
C2_NonHostRejected ==
  [][\A r \in Requests :
       ( /\ Stepped(r)
         /\ handlers'[r].kind \in HostOnlyKinds
         /\ handlers'[r].user_id # quiz_sessions[handlers'[r].session_id].host_user_id )
       => Rejected(r)]_vars

C2_Witness ==
  \E r \in Requests :
    /\ handlers[r].kind = "next_question"
    /\ handlers[r].user_id # quiz_sessions[handlers[r].session_id].host_user_id
    /\ handlers[r].pc = "done"
    /\ handlers[r].error = "Only the host can advance questions"
    /\ quiz_sessions[handlers[r].session_id].status = "in_progress"

\* C3: start_quiz by the host on a session that is in_progress or completed
\* is rejected: an error to the requester, the session unchanged, no broadcast.
C3_RestartRejected ==
  [][\A r \in Requests :
       ( /\ Begins(r, "start_quiz")
         /\ handlers'[r].user_id = quiz_sessions[handlers'[r].session_id].host_user_id
         /\ quiz_sessions[handlers'[r].session_id].status \in {"in_progress", "completed"} )
       => Rejected(r)]_vars

\* C4: next_question or end_quiz by the host on a session that is waiting is
\* rejected: an error to the requester, the session unchanged, no broadcast.
C4_PacingWhileWaitingRejected ==
  [][\A r \in Requests :
       ( /\ Begins(r, "next_question") \/ Begins(r, "end_quiz")
         /\ handlers'[r].user_id = quiz_sessions[handlers'[r].session_id].host_user_id
         /\ quiz_sessions[handlers'[r].session_id].status = "waiting" )
       => Rejected(r)]_vars

\* Handler h is a next_question of the host that read the session in_progress
\* at its last question.
LastAdvance(h) ==
  /\ h.kind = "next_question"
  /\ h.pc # "done"
  /\ h.session.found
  /\ h.session.host_user_id = h.user_id
  /\ h.session.status = "in_progress"
  /\ h.session.current_question_index + 1 >= Len(questions)

\* This step is the arrival of such a next_question at handler r.
LastAdvanceArrives(r) ==
  LET session == quiz_sessions[handlers'[r].session_id] IN
  /\ Begins(r, "next_question")
  /\ handlers'[r].user_id = session.host_user_id
  /\ session.status = "in_progress"
  /\ session.current_question_index + 1 >= Len(questions)

SessionParticipantIds(session_id) ==
  {p \in ParticipantSet : session_participants[p].quiz_session_id = session_id}

\* C5: a next_question of the host that finds the session in_progress at its
\* last question completes the quiz: it goes on to write status completed and
\* ended_at, and it broadcasts exactly once, as its last step, one
\* quiz_completed event with a leaderboard entry for every participant, and
\* no next_question or question event.
C5_LastAdvanceCompletes ==
  [][\A r \in Requests :
       LET s == handlers'[r].session_id IN
       ( /\ Stepped(r)
         /\ LastAdvance(handlers[r]) \/ LastAdvanceArrives(r) )
       => /\ handlers[r].kind = "idle" => handlers'[r].pc = "end_update"
          /\ handlers[r].pc = "end_update" =>
               /\ quiz_sessions'[s].status = "completed"
               /\ quiz_sessions'[s].ended_at # NullTime
          /\ handlers[r].pc # "end_update" => quiz_sessions' = quiz_sessions
          /\ handlers'[r].error = NoError
          /\ IF handlers'[r].pc = "done"
             THEN /\ Len(room'[s]) = Len(room[s]) + 1
                  /\ LET e == room'[s][Len(room'[s])]
                     IN  /\ e.type = "quiz_completed"
                         /\ Len(e.final_leaderboard) = Cardinality(SessionParticipantIds(s))
                         /\ {e.final_leaderboard[i].participant_id :
                               i \in 1..Len(e.final_leaderboard)} = SessionParticipantIds(s)
                  /\ SubSeq(room'[s], 1, Len(room[s])) = room[s]
             ELSE room' = room]_vars

\* A last advance on a quiz of two questions has completed the session.
C5_Witness ==
  /\ Len(questions) = 2
  /\ \E r \in Requests :
       /\ handlers[r].kind = "next_question" /\ handlers[r].pc = "done"
       /\ handlers[r].error = NoError
       /\ quiz_sessions[handlers[r].session_id].status = "completed"
       /\ quiz_sessions[handlers[r].session_id].current_question_index = 1
       /\ Len(room[handlers[r].session_id]) = 5
       /\ room[handlers[r].session_id][5].type = "quiz_completed"

RECURSIVE SumPoints(_)
SumPoints(answers) ==
  IF answers = <<>> THEN 0 ELSE Head(answers).points_earned + SumPoints(Tail(answers))

CorrectAnswersOf(p) ==
  SelectRows(quiz_answers,
             {i \in 1..Len(quiz_answers) :
                quiz_answers[i].participant_id = p /\ quiz_answers[i].is_correct})

SubmitInFlight ==
  \E r \in Requests : handlers[r].kind = "submit_answer" /\ handlers[r].pc # "done"

\* C6: when two correct submissions of one participant for two different
\* questions have both finished, however their store reads and writes
\* interleaved, the participant's total_score is the prior total_score (0)
\* plus the points awarded to the two answers.
C6_NoLostScoreUpdate ==
  \A p \in ParticipantSet :
    LET rows == CorrectAnswersOf(p) IN
    ( /\ ~SubmitInFlight
      /\ Len(rows) = 2
      /\ rows[1].question_id # rows[2].question_id )
    => session_participants[p].total_score = SumPoints(rows)

\* C7: the broadcasts of a room are those of the transitions run one after the
\* other: run so, a next_question that announces an index already announced
\* comes after a start_quiz that reset the index in between, so in a started
\* quiz two next_question events with the same index have a quiz_started
\* between them (two racing next_question do not announce one index twice).
C7_TransitionsSerialized ==
  \A s \in SessionIds :
    \A i, j \in 1..Len(room[s]) :
      ( /\ i < j
        /\ \E k \in 1..(i - 1) : room[s][k].type = "quiz_started"
        /\ room[s][i].type = "next_question"
        /\ room[s][j].type = "next_question"
        /\ room[s][i].current_question_index = room[s][j].current_question_index )
      => \E k \in (i + 1)..(j - 1) : room[s][k].type = "quiz_started"

\* C8: at most one answer record exists for a (participant, question) pair.
C8_OneAnswerPerQuestion ==
  \A i, j \in 1..Len(quiz_answers) :
    ( /\ quiz_answers[i].participant_id = quiz_answers[j].participant_id
      /\ quiz_answers[i].question_id = quiz_answers[j].question_id )
    => i = j

AnswersOfSession(s) ==
  SelectRows(quiz_answers,
             {i \in 1..Len(quiz_answers) : quiz_answers[i].quiz_session_id = s})

\* C9: while a session is completed no step adds an answer record for it or
\* changes the total_score of one of its participants.
C9_CompletedIsFrozen ==
  [][\A s \in SessionIds :
       quiz_sessions[s].status = "completed"
       => /\ AnswersOfSession(s)' = AnswersOfSession(s)
          /\ \A p \in SessionParticipantIds(s) :
               session_participants'[p].total_score = session_participants[p].total_score]_vars

\* C10: a session that is in_progress has a current_question_index that is an
\* index into the quiz's questions.
C10_IndexValidInProgress ==
  \A s \in SessionIds :
    quiz_sessions[s].status = "in_progress"
    => /\ 0 <= quiz_sessions[s].current_question_index
       /\ quiz_sessions[s].current_question_index < Len(questions)

\* A session in_progress at the last question after an advance.
C10_Witness ==
  \E s \in SessionIds :
    /\ quiz_sessions[s].status = "in_progress"
    /\ quiz_sessions[s].current_question_index = Len(questions) - 1
    /\ Len(questions) >= 2
    /\ \E r \in Requests : handlers[r].kind = "next_question" /\ handlers[r].pc = "done"
                           /\ handlers[r].error = NoError

\* The positions of the quiz_completed events in the room of session s.
CompletedEvents(s) == {i \in 1..Len(room[s]) : room[s][i].type = "quiz_completed"}

\* C11: completion is idempotent: a room is told quiz_completed at most once,
\* and a session's ended_at, once written, is not written again.
C11_CompletionIdempotent ==
  [][\A s \in SessionIds :
       /\ Cardinality(CompletedEvents(s)') <= 1
       /\ quiz_sessions[s].ended_at # NullTime
            => quiz_sessions'[s].ended_at = quiz_sessions[s].ended_at]_vars

\* The events this step broadcasts to the room of session s.
NewEvents(s) == SubSeq(room'[s], Len(room[s]) + 1, Len(room'[s]))

\* The fields that disclose the correct answer, an answer or its correctness.
AnswerFields == {"correct_answer", "answer", "is_correct", "points_earned", "results"}

PlayEventTypes == {"question", "quiz_started", "next_question", "answer_submitted"}

\* C12: no question, quiz_started, next_question or answer_submitted event
\* carries the correct answer, a submitted answer or its correctness; the only
\* event with a correct_answer is answer_revealed, and a step broadcasts it
\* only as the step of a reveal_answer handler of the session's host.
C12_AnswerDisclosedOnlyByReveal ==
  [][\A s \in SessionIds :
       \A i \in 1..Len(NewEvents(s)) :
         LET e == NewEvents(s)[i] IN
         /\ e.type \in PlayEventTypes => DOMAIN e \cap AnswerFields = {}
         /\ e.type = "question" => DOMAIN e.question \cap AnswerFields = {}
         /\ e.type # "answer_revealed" => "correct_answer" \notin DOMAIN e
         /\ e.type = "answer_revealed" =>
              \E r \in Requests :
                /\ Stepped(r)
                /\ handlers[r].kind = "reveal_answer"
                /\ handlers[r].user_id = quiz_sessions[s].host_user_id]_vars

\* An answer was submitted and announced, and the host's reveal then
\* broadcast the question's correct answer with that answer in its results.
C12_Witness ==
  \E s \in SessionIds :
    \E i, j \in 1..Len(room[s]) :
      /\ i < j
      /\ room[s][i].type = "answer_submitted"
      /\ room[s][j].type = "answer_revealed"
      /\ room[s][j].question_id = room[s][i].question_id
      /\ room[s][j].correct_answer = questions[room[s][j].question_id].correct_answer
      /\ Len(room[s][j].results) = 1

\* p is x rounded to the nearest integer, a half rounding up, for the
\* non-negative rational x = num/den: p - 1/2 <= x < p + 1/2.
IsRounded(p, num, den) ==
  /\ 2 * den * p - den <= 2 * num
  /\ 2 * num < 2 * den * p + den

\* C13: every stored answer to a question with time_limit > 0 has the points
\* of the reference formula: 0 when incorrect; when correct the integer
\* round(500 + 500 * max(0, 1 - time_taken/time_limit)), which lies in
\* [500, 1000], is 1000 at time_taken = 0 and 500 when time_taken >= time_limit.
C13_ScoringFormula ==
  \A i \in 1..Len(quiz_answers) :
    LET a == quiz_answers[i]
        L == questions[a.question_id].time_limit
        t == a.time_taken
        p == a.points_earned
    IN  L > 0 =>
          IF ~a.is_correct THEN p = 0
          ELSE /\ p \in 500..1000
               /\ t = 0 => p = 1000
               /\ t >= L => p = 500
               /\ t < L => IsRounded(p, 500 * L + 500 * (L - t), L)

\* A correct answer scored where the bonus is not an integer (500 * 2/3), and
\* the participant's total_score now holds the points.
C13_Witness ==
  /\ Len(quiz_answers) = 1
  /\ quiz_answers[1].is_correct
  /\ questions[1].time_limit = 3
  /\ quiz_answers[1].time_taken = 1
  /\ quiz_answers[1].points_earned = 833
  /\ session_participants[quiz_answers[1].participant_id].total_score = 833

\* C14: every stored correct answer to a question with time_limit = 0 has
\* exactly 500 points, whatever its time_taken (0 included): a number, never
\* NaN.
C14_ZeroTimeLimitGuarded ==
  \A i \in 1..Len(quiz_answers) :
    ( /\ quiz_answers[i].is_correct
      /\ questions[quiz_answers[i].question_id].time_limit = 0 )
    => quiz_answers[i].points_earned = 500

\* The set of the strings in a list.
SetOf(l) == {l[i] : i \in 1..Len(l)}

\* C15: the is_correct stored for a submitted answer is true exactly when the
\* answer list and the question's correct_answer list hold the same set of
\* option strings (whatever the payload says about correctness); stated here
\* for lists that name no option twice.
C15_CorrectIsSetEquality ==
  \A i \in 1..Len(quiz_answers) :
    LET answer == quiz_answers[i].answer
        correct_answer == questions[quiz_answers[i].question_id].correct_answer
    IN  ( /\ Cardinality(SetOf(answer)) = Len(answer)
          /\ Cardinality(SetOf(correct_answer)) = Len(correct_answer) )
        => (quiz_answers[i].is_correct <=> SetOf(answer) = SetOf(correct_answer))

\* The leaderboards broadcast to the room of session s.
Leaderboards(s) ==
  {room[s][i].final_leaderboard :
     i \in {j \in 1..Len(room[s]) : room[s][j].type = "quiz_completed"}}
  \cup {room[s][i].leaderboard :
          i \in {j \in 1..Len(room[s]) : room[s][j].type = "answer_revealed"}}

\* C16: a computed leaderboard has exactly one entry for each participant of
\* the session, and of two adjacent entries the first has the greater
\* total_score, or the same total_score and an average_time not greater.
C16_LeaderboardOrdered ==
  \A s \in SessionIds :
    \A board \in Leaderboards(s) :
      /\ Len(board) = Cardinality(SessionParticipantIds(s))
      /\ {board[i].participant_id : i \in 1..Len(board)} = SessionParticipantIds(s)
      /\ \A i \in 1..(Len(board) - 1) :
           \/ board[i].total_score > board[i + 1].total_score
           \/ /\ board[i].total_score = board[i + 1].total_score
              /\ board[i].average_time <= board[i + 1].average_time

\* A final leaderboard of two participants with the same positive score,
\* where the second participant of the store, faster on average, comes first.
C16_Witness ==
  \E s \in SessionIds :
    \E i \in 1..Len(room[s]) :
      /\ room[s][i].type = "quiz_completed"
      /\ LET board == room[s][i].final_leaderboard
         IN  /\ Len(board) = 2
             /\ board[1].participant_id = "p2"
             /\ board[1].total_score = board[2].total_score
             /\ board[1].total_score > 0
             /\ board[1].average_time < board[2].average_time

\* How many times x occurs in the list l.
CountOf(l, x) == Cardinality({i \in 1..Len(l) : l[i] = x})

\* The lists a and b hold the same strings the same number of times.
SameMultiset(a, b) ==
  /\ Len(a) = Len(b)
  /\ \A x \in SetOf(a) \cup SetOf(b) : CountOf(a, x) = CountOf(b, x)

\* C17: the options of every question event a step broadcasts are a
\* permutation of the stored options of that question (the same strings the
\* same number of times, whatever the shuffle chose), they are the stored
\* list itself when randomize_options is false, and the step leaves the
\* stored questions as they were.
C17_OptionsPermutation ==
  [][\A s \in SessionIds :
       \A i \in 1..Len(NewEvents(s)) :
         LET e == NewEvents(s)[i] IN
         e.type = "question" =>
           LET stored == questions[e.question.id] IN
           /\ SameMultiset(e.question.options, stored.options)
           /\ ~stored.randomize_options => e.question.options = stored.options
           /\ questions' = questions]_vars

\* A question event whose three different options are the stored ones in
\* another order.
C17_Witness ==
  \E s \in SessionIds :
    \E i \in 1..Len(room[s]) :
      /\ room[s][i].type = "question"
      /\ questions[1].randomize_options
      /\ questions[1].options = <<chA, chB, chAB>>
      /\ room[s][i].question.options = <<chAB, chA, chB>>

\* C18: start_quiz by the host on a quiz with no questions is rejected: an
\* error to the requester, the session as it was (a waiting session remains
\* waiting, current_question_index and started_at unchanged), and neither
\* quiz_started nor question broadcast.
C18_EmptyQuizNotStarted ==
  [][\A r \in Requests :
       ( /\ Begins(r, "start_quiz")
         /\ handlers'[r].user_id = quiz_sessions[handlers'[r].session_id].host_user_id
         /\ Len(questions) = 0 )
       => /\ Rejected(r)
          /\ handlers'[r].error = "No questions found for this quiz"]_vars

\* The host's start_quiz on an empty quiz has ended with the error, and the
\* session is waiting, not started, and its room silent.
C18_Witness ==
  /\ Len(questions) = 0
  /\ \E r \in Requests :
       LET s == handlers[r].session_id IN
       /\ handlers[r].kind = "start_quiz" /\ handlers[r].pc = "done"
       /\ handlers[r].user_id = HostUserId
       /\ handlers[r].error = "No questions found for this quiz"
       /\ quiz_sessions[s].status = "waiting"
       /\ quiz_sessions[s].started_at = NullTime
       /\ room[s] = <<>>

\* C19: a session's state is written before it is announced and the
\* announcement matches it: the step that broadcasts a question event with
\* index i writes nothing to the session (its write came before), and at that
\* moment the stored session is in_progress with current_question_index = i
\* and the question sent is the i-th of the quiz in order_index order.
C19_AnnouncedStateIsStored ==
  [][\A s \in SessionIds :
       \A k \in 1..Len(NewEvents(s)) :
         LET e == NewEvents(s)[k] IN
         e.type = "question" =>
           /\ quiz_sessions' = quiz_sessions
           /\ quiz_sessions[s].status = "in_progress"
           /\ quiz_sessions[s].current_question_index = e.current_question_index
           /\ e.question.order_index = e.current_question_index
           /\ e.question.id = questions[e.current_question_index + 1].id]_vars

\* The events of one type broadcast to the room of session s, in order.
EventsOfType(s, type) ==
  SelectRows(room[s], {i \in 1..Len(room[s]) : room[s][i].type = type})

\* In the room of s the questions were sent in order, each once, the session
\* in progress is at the last one sent (or at the one about to be sent), and
\* a completed session has sent them all and was advanced between them.
PacedInOrder(s) ==
  LET sent == EventsOfType(s, "question")
      N == Len(questions)
      session == quiz_sessions[s]
  IN  /\ Len(sent) <= N
      /\ \A k \in 1..Len(sent) :
           /\ sent[k].current_question_index = k - 1
           /\ sent[k].question.id = questions[k].id
      /\ session.status = "in_progress" =>
           /\ session.current_question_index \in 0..(N - 1)
           /\ session.current_question_index \in {Len(sent) - 1, Len(sent)}
      /\ session.status = "completed" =>
           /\ Len(sent) = N
           /\ session.current_question_index = N - 1
           /\ Len(EventsOfType(s, "next_question")) = N - 1
           /\ Len(EventsOfType(s, "quiz_completed")) <= 1

\* C20: a started quiz ends under host pacing: when the host sends start_quiz
\* and then next_question again and again, each handled to its end before the
\* next, a session in progress on a quiz of N >= 1 questions is eventually
\* completed; current_question_index takes 0, 1, ..., N-1 in order, each
\* question is broadcast once, and the N-th next_question completes it.
C20_PacedQuizTerminates ==
  /\ [](\A s \in SessionIds : PacedInOrder(s))
  /\ \A s \in SessionIds :
       (quiz_sessions[s].status = "in_progress" /\ Len(questions) >= 1)
         ~> (quiz_sessions[s].status = "completed")

\* A quiz of two questions run to its end: both questions sent, one advance
\* announced, the second advance completed the session.
C20_Witness ==
  \E s \in SessionIds :
    /\ Len(questions) = 2
    /\ quiz_sessions[s].status = "completed"
    /\ Len(EventsOfType(s, "question")) = 2
    /\ Len(EventsOfType(s, "next_question")) = 1
    /\ room[s][Len(room[s])].type = "quiz_completed"
    /\ NoneInFlight

\* C21: a submit_answer that names a question that does not exist is rejected:
\* an error to the requester, no answer record, no total_score changed, no
\* answer_submitted broadcast.  Every step that receives a submit_answer is
\* either that rejection or the insertion of one record for a question that
\* exists, named by the payload the handler goes on with.
C21_MissingQuestionRejected ==
  [][\A r \in Requests :
       Begins(r, "submit_answer") =>
         IF handlers'[r].pc = "done"
         THEN /\ Rejected(r)
              /\ handlers'[r].error = "Question not found"
         ELSE /\ QuestionExists(handlers'[r].data.question_id)
              /\ Len(quiz_answers') = Len(quiz_answers) + 1
              /\ quiz_answers'[Len(quiz_answers')].question_id
                   = handlers'[r].data.question_id]_vars

\* A submit_answer has ended with the error after another submission was
\* recorded: the tables hold that one record only, and the room no
\* answer_submitted of the rejected one.
C21_Witness ==
  \E r \in Requests :
    /\ handlers[r].kind = "submit_answer"
    /\ handlers[r].pc = "done"
    /\ handlers[r].error = "Question not found"
    /\ Len(quiz_answers) = 1
    /\ Len(room[handlers[r].session_id]) = 1

\* C22: every request is answered: the handler of a start_quiz,
\* submit_answer, reveal_answer, next_question or end_quiz event does not
\* return silently; the step that ends it sends an error to the requester or
\* a broadcast to the session's room.
C22_EveryRequestAnswered ==
  [][\A r \in Requests :
       ( /\ Stepped(r)
         /\ handlers'[r].pc = "done" )
       => \/ handlers'[r].error # NoError
          \/ Len(room'[handlers'[r].session_id]) > Len(room[handlers'[r].session_id])]_vars

\* Participant p is the participant of the socket's user in the socket's session.
OwnParticipant(p, session_id, user_id) ==
  /\ session_participants[p].quiz_session_id = session_id
  /\ session_participants[p].user_id = user_id

\* C23: a submission affects only the submitter's own participant: a step of
\* the handler of a submit_answer from a socket bound to (session, user)
\* records an answer for, and changes the total_score of, no participant but
\* the one of that user in that session.
C23_OnlyOwnParticipant ==
  [][\A r \in Requests :
       ( /\ Stepped(r)
         /\ handlers'[r].kind = "submit_answer" )
       => \A p \in ParticipantSet :
            ( \/ session_participants'[p].total_score # session_participants[p].total_score
              \/ /\ Len(quiz_answers') > Len(quiz_answers)
                 /\ quiz_answers'[Len(quiz_answers')].participant_id = p )
            => OwnParticipant(p, handlers'[r].session_id, handlers'[r].user_id)]_vars

\* The answer records stored for participant p.
RecordsOf(p) ==
  SelectRows(quiz_answers,
             {i \in 1..Len(quiz_answers) : quiz_answers[i].participant_id = p})

\* C24: the scores agree with the answer history: when no submit_answer is in
\* flight, the total_score of every participant is its initial total_score
\* (0) plus the points_earned of all the answer records stored for it.
C24_ScoreMatchesHistory ==
  ~SubmitInFlight =>
    \A p \in ParticipantSet :
      session_participants[p].total_score = SumPoints(RecordsOf(p))

====
